---- MODULE Spec2Model ----
(***************************************************************************)
(* A model of src/src/data_loader.py: the NeuronLoader class (construction, *)
(* download, setup_data, region_to_mask, mask_to_region, get_json_output)  *)
(* and the three module-level functions of the same names.                 *)
(*                                                                         *)
(* Two specifications share the variables:                                 *)
(*   SpecSetup  - repeated construction of a NeuronLoader on one data      *)
(*                directory (the file system is the state);                *)
(*   SpecCalls  - calls of the conversion methods and of the module-level  *)
(*                functions on inputs drawn from bounded sets.             *)
(***************************************************************************)
EXTENDS Integers, Sequences, FiniteSets, TLC

VARIABLES
    fs,           \* the data directory: see EmptyFS
    run,          \* what the last NeuronLoader() construction did: see NoRun
    failedItems,  \* train files whose conversion to a mask has failed in some run
    api,          \* which function the drawn arguments are for
    L,            \* mask_to_region: the labelled raster returned by the labelling routine
    datasets,     \* get_json_output: first argument
    dataset_regions, \* get_json_output: second argument
    regions_json, \* region_to_mask: argument
    result,       \* outcome of the NeuronLoader method call
    wresult,      \* outcome of the module-level function call
    ri            \* last application of remove_interiors: see NoRI

vars == <<fs, run, failedItems, api, L, datasets, dataset_regions, regions_json,
          result, wresult, ri>>

fsVars == <<fs, run, failedItems>>
callVars == <<api, L, datasets, dataset_regions, regions_json, result, wresult, ri>>

-----------------------------------------------------------------------------
(* Bounds *)

NTrain == 3     \* number of entries of train_opts
NTest == 2      \* number of entries of test_opts
NRows == 5      \* rows of the labelled raster
NCols == 6      \* columns of the labelled raster
MaxBlobs == 2   \* foreground components of a raster
MaxLen == 2     \* length of the lists given to get_json_output

-----------------------------------------------------------------------------
(* Helpers *)

Range(s) == {s[i] : i \in 1..Len(s)}

Min(a, b) == IF a < b THEN a ELSE b

Max(a, b) == IF a > b THEN a ELSE b

\* The number of leading elements of files that are in ok: how far a Python
\* for loop gets when its body raises on the first element outside ok.
PrefixLen(files, ok) ==
    CHOOSE k \in 0..Len(files) :
        /\ \A j \in 1..k : files[j] \in ok
        /\ k = Len(files) \/ files[k + 1] \notin ok

\* The outcome of a call: kind is "pending" (not called), "value" (val was
\* returned), "None" (the call returned None) or "raise" (exc was raised).
Pending == [kind |-> "pending", val |-> <<>>, exc |-> "none"]

Value(v) == [kind |-> "value", val |-> v, exc |-> "none"]

None == [kind |-> "None", val |-> <<>>, exc |-> "none"]

Raise(e) == [kind |-> "raise", val |-> <<>>, exc |-> e]

-----------------------------------------------------------------------------
(* NeuronLoader.__init__, download, setup_data *)

\* self.train_files: 'neurofinder.' + train_opt, in the order of train_opts
train_files == [i \in 1..NTrain |-> [split |-> "train", opt |-> i]]

\* self.test_files: 'neurofinder.' + test_opt + '.test'
test_files == [i \in 1..NTest |-> [split |-> "test", opt |-> i]]

AllFiles == Range(train_files) \cup Range(test_files)

\* The data directory. zips: the <name>.zip files in it; root: the dataset
\* folders directly in it; train, test: the dataset folders inside 'train'
\* and 'test'; masks: the <name>.png files inside 'masks'.
EmptyFS ==
    [exists |-> FALSE, zips |-> {}, root |-> {},
     hasTrain |-> FALSE, train |-> {},
     hasTest |-> FALSE, test |-> {},
     hasMasks |-> FALSE, masks |-> {}]

\* The record of one construction: methods called, lines printed, zip files
\* extracted, folders moved, mask files written, exception raised.
NoRun ==
    [calls |-> <<>>, printed |-> <<>>, unzipped |-> {}, moved |-> {},
     written |-> {}, raised |-> "none", failed |-> {}]

\* The state a construction starts from and works on: the data directory and
\* the record of the run so far.
Start(f) ==
    [fs |-> f, calls |-> <<>>, printed |-> <<>>, unzipped |-> {}, moved |-> {},
     written |-> {}, raised |-> "none", failed |-> {}]

RunOf(s) ==
    [calls |-> s.calls, printed |-> s.printed, unzipped |-> s.unzipped,
     moved |-> s.moved, written |-> s.written, raised |-> s.raised,
     failed |-> s.failed]

\* download(): mkdir, then one gsutil copy per zip file; subprocess.call does
\* not raise when the copy fails, so got (the copies that arrived) is any
\* subset of the files.
download(s, got) ==
    [s EXCEPT !.fs.exists = TRUE,
              !.fs.zips = @ \cup got,
              !.calls = Append(@, "download")]

\* setup_data, first loop: every zip file is extracted and removed.
Unzip(s) ==
    [s EXCEPT !.fs.root = @ \cup s.fs.zips,
              !.fs.zips = {},
              !.unzipped = s.fs.zips]

\* setup_data, 'train' stage: shutil.move raises on the first folder that is
\* not in the data directory, after the folders before it were moved.
SetupTrain(s) ==
    IF s.raised # "none" THEN s
    ELSE IF s.fs.hasTrain /\ s.fs.train # {}
    THEN [s EXCEPT !.printed = Append(@, "'train' folder already exists")]
    ELSE LET k == PrefixLen(train_files, s.fs.root)
             mv == {train_files[j] : j \in 1..k}
             t == [s EXCEPT !.fs.hasTrain = TRUE,
                            !.fs.train = @ \cup mv,
                            !.fs.root = @ \ mv,
                            !.moved = @ \cup mv]
         IN IF k = Len(train_files)
            THEN [t EXCEPT !.printed = Append(@, "'train' folder created")]
            ELSE [t EXCEPT !.raised = "FileNotFoundError"]

\* setup_data, 'test' stage
SetupTest(s) ==
    IF s.raised # "none" THEN s
    ELSE IF s.fs.hasTest /\ s.fs.test # {}
    THEN [s EXCEPT !.printed = Append(@, "'test' folder already exists")]
    ELSE LET k == PrefixLen(test_files, s.fs.root)
             mv == {test_files[j] : j \in 1..k}
             t == [s EXCEPT !.fs.hasTest = TRUE,
                            !.fs.test = @ \cup mv,
                            !.fs.root = @ \ mv,
                            !.moved = @ \cup mv]
         IN IF k = Len(test_files)
            THEN [t EXCEPT !.printed = Append(@, "'test' folder created")]
            ELSE [t EXCEPT !.raised = "FileNotFoundError"]

\* The 'masks' stage without its test of the 'masks' folder: the masks are
\* written whether or not the folder already holds files.
SetupMasksAlways(s, bad) ==
    IF s.raised # "none" THEN s
    ELSE LET k == PrefixLen(train_files, s.fs.train \ bad)
             wr == {train_files[j] : j \in 1..k}
             t == [s EXCEPT !.fs.hasMasks = TRUE,
                            !.fs.masks = @ \cup wr,
                            !.written = wr]
         IN IF k = Len(train_files)
            THEN [t EXCEPT !.printed = Append(@, "'masks' folder created")]
            ELSE [t EXCEPT !.raised = "ConversionError",
                           !.failed = {train_files[k + 1]}]

\* setup_data, 'masks' stage: regions.json of each train file is opened,
\* loaded, converted and written as <name>.png. The conversion of f raises
\* when train/f/regions/regions.json is not there or when f is in bad (the
\* file does not load or does not convert); nothing catches it, so the loop
\* ends there.
SetupMasks(s, bad) ==
    IF s.raised # "none" THEN s
    ELSE IF s.fs.hasMasks /\ s.fs.masks # {}
    THEN [s EXCEPT !.printed = Append(@, "'masks' folder already exists")]
    ELSE LET k == PrefixLen(train_files, s.fs.train \ bad)
             wr == {train_files[j] : j \in 1..k}
             t == [s EXCEPT !.fs.hasMasks = TRUE,
                            !.fs.masks = @ \cup wr,
                            !.written = wr]
         IN IF k = Len(train_files)
            THEN [t EXCEPT !.printed = Append(@, "'masks' folder created")]
            ELSE [t EXCEPT !.raised = "ConversionError",
                           !.failed = {train_files[k + 1]}]

setup_data(s, bad) ==
    SetupMasks(SetupTest(SetupTrain(Unzip(
        [s EXCEPT !.calls = Append(@, "setup_data")]))), bad)

\* NeuronLoader(): the state of the data directory and the record of the run
\* after the constructor has returned or raised.
NeuronLoaderInit(f, got, bad) ==
    LET s0 == Start(f)
    IN IF f.exists
       THEN setup_data([s0 EXCEPT !.printed = <<"already downloaded", "setting up">>], bad)
       ELSE setup_data(download(
                [s0 EXCEPT !.printed = <<"downloading", "setting up">>], got), bad)

-----------------------------------------------------------------------------
(* NeuronLoader.mask_to_region and remove_interiors *)

Cells == (0..(NRows - 1)) \X (0..(NCols - 1))

\* The pixels of the raster in the order np.where lists them: row by row.
RowMajor == [k \in 1..(NRows * NCols) |-> <<(k - 1) \div NCols, (k - 1) % NCols>>]

\* The indices a Python slice start:stop selects on an axis of length n: a
\* negative start counts from the end, and both ends are clipped to 0..n.
PySlice(start, stop, n) ==
    LET lo == IF start < 0 THEN Max(start + n, 0) ELSE Min(start, n)
        hi == IF stop < 0 THEN Max(stop + n, 0) ELSE Min(stop, n)
    IN lo..(hi - 1)

\* grid = L[pixel[0]-1:pixel[0]+2, pixel[1]-1:pixel[1]+2], as the set of its
\* values (np.unique)
GridValues(lab, pixel) ==
    {lab[<<r, c>>] : r \in PySlice(pixel[1] - 1, pixel[1] + 2, NRows),
                     c \in PySlice(pixel[2] - 1, pixel[2] + 2, NCols)}

\* list.remove(x): the list without the first element equal to x
ListRemove(s, x) ==
    LET i == CHOOSE j \in 1..Len(s) : s[j] = x /\ \A m \in 1..(j - 1) : s[m] # x
    IN SubSeq(s, 1, i - 1) \o SubSeq(s, i + 1, Len(s))

\* The for loop of remove_interiors from list index idx on: the list iterator
\* keeps an index into the list that the body shortens.
RECURSIVE RemoveLoop(_, _, _)
RemoveLoop(lab, region, idx) ==
    IF idx > Len(region) THEN region
    ELSE IF Cardinality(GridValues(lab, region[idx])) = 1
         THEN RemoveLoop(lab, ListRemove(region, region[idx]), idx + 1)
         ELSE RemoveLoop(lab, region, idx + 1)

remove_interiors(lab, region) == RemoveLoop(lab, region, 1)

\* list(zip(*np.where(L == float(i))))
Coordinates(lab, i) == SelectSeq(RowMajor, LAMBDA p : lab[p] = i)

\* int(L.max())
LMax(lab) == CHOOSE m \in {lab[p] : p \in Cells} : \A p \in Cells : lab[p] <= m

\* NeuronLoader.mask_to_region, from the labelled raster on
MaskToRegion(lab) ==
    LET n == LMax(lab)
    IN Value([i \in 1..(n - 1) |->
                 [coordinates |-> remove_interiors(lab, Coordinates(lab, i))]])

-----------------------------------------------------------------------------
(* NeuronLoader.region_to_mask and NeuronLoader.get_json_output *)

\* NeuronLoader.region_to_mask: the grey image of the mask that the regional
\* package draws from the coordinate lists; the drawing is the package's, so
\* the mask is kept as the term rgb2gray(many(coordinates).mask(...)).
RegionToMask(rj) ==
    Value(<<[rgb2gray_mask_of |-> [i \in 1..Len(rj) |-> rj[i].coordinates]]>>)

\* NeuronLoader.get_json_output: with equal lengths the comprehension reads
\* dataset[i], a name bound nowhere, as soon as it has an element to build;
\* otherwise the message is printed and `return output` reads a local that
\* was never assigned.
GetJsonOutput(ds, dr) ==
    IF Len(ds) = Len(dr)
    THEN IF Len(ds) = 0 THEN Value(<<>>) ELSE Raise("NameError")
    ELSE Raise("UnboundLocalError")

-----------------------------------------------------------------------------
(* The module-level functions *)

\* region_to_mask(path): constructs a NeuronLoader, calls the method and
\* drops its value; s is the construction's outcome.
ModRegionToMask(s, rj) ==
    IF s.raised # "none" THEN Raise(s.raised)
    ELSE IF RegionToMask(rj).kind = "raise" THEN RegionToMask(rj) ELSE None

\* mask_to_region(image)
ModMaskToRegion(s, lab) ==
    IF s.raised # "none" THEN Raise(s.raised)
    ELSE IF MaskToRegion(lab).kind = "raise" THEN MaskToRegion(lab) ELSE None

\* get_json_output(self, datasets, dataset_regions): nargs positional
\* arguments are given; with the three it declares, it reads the name
\* NeuroLoader, which is bound nowhere.
ModGetJsonOutput(nargs, ds, dr) ==
    IF nargs # 3 THEN Raise("TypeError") ELSE Raise("NameError")

-----------------------------------------------------------------------------
(* The arguments the calls are made with *)

\* Sequences over S of length at most n
SeqsUpTo(S, n) == UNION {[1..k -> S] : k \in 0..n}

\* A filled rectangle of foreground pixels: rows r0..r1, columns c0..c1
Rects ==
    {q \in [r0 : 0..(NRows - 1), r1 : 0..(NRows - 1),
            c0 : 0..(NCols - 1), c1 : 0..(NCols - 1)] :
        q.r0 <= q.r1 /\ q.c0 <= q.c1}

\* No pixel of a is 8-connected to a pixel of b.
Separated(a, b) ==
    \/ a.r1 + 1 < b.r0
    \/ b.r1 + 1 < a.r0
    \/ a.c1 + 1 < b.c0
    \/ b.c1 + 1 < a.c0

\* The sequences of at most n pairwise separated rectangles
RECURSIVE BlobSeqs(_)
BlobSeqs(n) ==
    IF n = 0 THEN {<<>>}
    ELSE LET prev == BlobSeqs(n - 1)
         IN prev \cup
            UNION {{Append(s, q) : q \in {x \in Rects :
                                         \A i \in 1..Len(s) : Separated(s[i], x)}} :
                   s \in {y \in prev : Len(y) = n - 1}}

InRect(p, q) == q.r0 <= p[1] /\ p[1] <= q.r1 /\ q.c0 <= p[2] /\ p[2] <= q.c1

\* The labelled raster of the labelling routine for the mask that holds the
\* rectangles of blobs: the i-th component found carries label i, the
\* background 0.
Labelled(blobs) ==
    [p \in Cells |->
        IF \E i \in 1..Len(blobs) : InRect(p, blobs[i])
        THEN CHOOSE i \in 1..Len(blobs) : InRect(p, blobs[i])
        ELSE 0]

DatasetNames == {"a", "b"}

OnePoint == [coordinates |-> <<(<<0, 0>>)>>]

TwoPoints == [coordinates |-> <<(<<1, 1>>), (<<1, 2>>)>>]

\* The "regions" lists of a dataset
RegionLists == {<<>>, <<OnePoint>>, <<OnePoint, TwoPoints>>}

-----------------------------------------------------------------------------
(* State *)

NoRI == [depth |-> 0, label |-> 0, arg |-> <<>>, ret |-> <<>>]

\* A data directory that a construction has fully set up
FullFS ==
    [exists |-> TRUE, zips |-> {}, root |-> {},
     hasTrain |-> TRUE, train |-> Range(train_files),
     hasTest |-> TRUE, test |-> Range(test_files),
     hasMasks |-> TRUE, masks |-> Range(train_files)]

\* No data directory yet, nothing called.
InitSetup ==
    /\ fs = EmptyFS
    /\ run = NoRun
    /\ failedItems = {}
    /\ api = "none"
    /\ L = Labelled(<<>>)
    /\ datasets = <<>>
    /\ dataset_regions = <<>>
    /\ regions_json = <<>>
    /\ result = Pending
    /\ wresult = Pending
    /\ ri = NoRI

\* A NeuronLoader constructed on a fully set up data directory, the function
\* to call (api) and its arguments.
InitCalls ==
    /\ fs = FullFS
    /\ run = RunOf(NeuronLoaderInit(FullFS, {}, {}))
    /\ failedItems = {}
    /\ result = Pending
    /\ wresult = Pending
    /\ ri = NoRI
    /\ \/ /\ api \in {"mask_to_region", "remove_interiors", "module.mask_to_region"}
          /\ \E blobs \in BlobSeqs(MaxBlobs) : L = Labelled(blobs)
          /\ datasets = <<>>
          /\ dataset_regions = <<>>
          /\ regions_json = <<>>
       \/ /\ api \in {"get_json_output", "module.get_json_output"}
          /\ L = Labelled(<<>>)
          /\ datasets \in SeqsUpTo(DatasetNames, MaxLen)
          /\ dataset_regions \in SeqsUpTo(RegionLists, MaxLen)
          /\ regions_json = <<>>
       \/ /\ api \in {"region_to_mask", "module.region_to_mask"}
          /\ L = Labelled(<<>>)
          /\ datasets = <<>>
          /\ dataset_regions = <<>>
          /\ regions_json \in SeqsUpTo({OnePoint, TwoPoints}, MaxLen)

-----------------------------------------------------------------------------
(* Actions *)

\* The outcomes download() can have on data directory f: any subset of the
\* zip files arrives; nothing is downloaded when the directory exists.
Downloads(f) == IF f.exists THEN {{}} ELSE SUBSET AllFiles

\* NeuronLoader(): got are the zip files whose download succeeds, bad the
\* train files whose conversion to a mask raises in this run.
Construct ==
    \E got \in Downloads(fs), bad \in SUBSET Range(train_files) :
        LET s == NeuronLoaderInit(fs, got, bad)
        IN /\ fs' = s.fs
           /\ run' = RunOf(s)
           /\ failedItems' = failedItems \cup s.failed
           /\ UNCHANGED callVars

\* nl.mask_to_region(path)
CallMaskToRegion ==
    /\ api = "mask_to_region"
    /\ result = Pending
    /\ result' = MaskToRegion(L)
    /\ UNCHANGED <<fsVars, api, L, datasets, dataset_regions, regions_json, wresult, ri>>

\* remove_interiors(L, region) on the pixel list of one label of L
CallRemoveInteriors ==
    /\ api = "remove_interiors"
    /\ ri.depth = 0
    /\ \E i \in 1..LMax(L) :
          ri' = [depth |-> 1, label |-> i, arg |-> Coordinates(L, i),
                 ret |-> remove_interiors(L, Coordinates(L, i))]
    /\ UNCHANGED <<fsVars, api, L, datasets, dataset_regions, regions_json, result, wresult>>

\* remove_interiors(L, region) on the list the previous application returned
CallRemoveInteriorsAgain ==
    /\ ri.depth = 1
    /\ ri' = [depth |-> 2, label |-> ri.label, arg |-> ri.ret,
              ret |-> remove_interiors(L, ri.ret)]
    /\ UNCHANGED <<fsVars, api, L, datasets, dataset_regions, regions_json, result, wresult>>

\* nl.region_to_mask(regions_json)
CallRegionToMask ==
    /\ api = "region_to_mask"
    /\ result = Pending
    /\ result' = RegionToMask(regions_json)
    /\ UNCHANGED <<fsVars, api, L, datasets, dataset_regions, regions_json, wresult, ri>>

\* nl.get_json_output(datasets, dataset_regions)
CallGetJsonOutput ==
    /\ api = "get_json_output"
    /\ result = Pending
    /\ result' = GetJsonOutput(datasets, dataset_regions)
    /\ UNCHANGED <<fsVars, api, L, datasets, dataset_regions, regions_json, wresult, ri>>

\* The module-level region_to_mask(path)
CallModRegionToMask ==
    /\ api = "module.region_to_mask"
    /\ wresult = Pending
    /\ \E got \in Downloads(fs), bad \in SUBSET Range(train_files) :
          LET s == NeuronLoaderInit(fs, got, bad)
          IN /\ fs' = s.fs
             /\ run' = RunOf(s)
             /\ failedItems' = failedItems \cup s.failed
             /\ wresult' = ModRegionToMask(s, regions_json)
    /\ UNCHANGED <<api, L, datasets, dataset_regions, regions_json, result, ri>>

\* The module-level mask_to_region(image)
CallModMaskToRegion ==
    /\ api = "module.mask_to_region"
    /\ wresult = Pending
    /\ \E got \in Downloads(fs), bad \in SUBSET Range(train_files) :
          LET s == NeuronLoaderInit(fs, got, bad)
          IN /\ fs' = s.fs
             /\ run' = RunOf(s)
             /\ failedItems' = failedItems \cup s.failed
             /\ wresult' = ModMaskToRegion(s, L)
    /\ UNCHANGED <<api, L, datasets, dataset_regions, regions_json, result, ri>>

\* The module-level get_json_output, called with the two documented
\* arguments or with a third one in front for its `self` parameter
CallModGetJsonOutput ==
    /\ api = "module.get_json_output"
    /\ wresult = Pending
    /\ \E nargs \in {2, 3} :
          wresult' = ModGetJsonOutput(nargs, datasets, dataset_regions)
    /\ UNCHANGED <<fsVars, api, L, datasets, dataset_regions, regions_json, result, ri>>

NextSetup == Construct

NextCalls ==
    \/ CallMaskToRegion
    \/ CallRemoveInteriors
    \/ CallRemoveInteriorsAgain
    \/ CallRegionToMask
    \/ CallGetJsonOutput
    \/ CallModRegionToMask
    \/ CallModMaskToRegion
    \/ CallModGetJsonOutput

SpecSetup == InitSetup /\ [][NextSetup]_vars

SpecCalls == InitCalls /\ [][NextCalls]_vars

-----------------------------------------------------------------------------
(* Properties *)

\* The foreground pixels of label i
PixelsOf(lab, i) == {p \in Cells : lab[p] = i}

\* Every pixel of the list lies at least one cell away from the raster border.
AwayFromBorder(region) ==
    \A p \in Range(region) :
        /\ 1 <= p[1] /\ p[1] <= NRows - 2
        /\ 1 <= p[2] /\ p[2] <= NCols - 2

OnBorder(p) == p[1] = 0 \/ p[1] = NRows - 1 \/ p[2] = 0 \/ p[2] = NCols - 1

\* The whole 3x3 window of p carries p's label (p is away from the border).
Homogeneous(lab, p) ==
    \A dr \in {-1, 0, 1}, dc \in {-1, 0, 1} : lab[<<p[1] + dr, p[2] + dc>>] = lab[p]

NoDuplicates(s) == \A i, j \in 1..Len(s) : s[i] = s[j] => i = j

\* C1: a labelled raster with k >= 1 components labelled 1..k gives exactly k
\* regions, region i holding pixels of label i, the highest label included.
C1_OneRegionPerLabel ==
    (api = "mask_to_region" /\ result # Pending /\ LMax(L) >= 1) =>
        /\ result.kind = "value"
        /\ Len(result.val) = LMax(L)
        /\ \A i \in 1..LMax(L) :
              Range(result.val[i].coordinates) \subseteq PixelsOf(L, i)

\* C2: a mask with exactly one foreground pixel p gives exactly one region,
\* whose coordinate list is [p].
C2_SinglePixel ==
    (api = "mask_to_region" /\ result # Pending
        /\ Cardinality({p \in Cells : L[p] # 0}) = 1) =>
        /\ result.kind = "value"
        /\ result.val = <<[coordinates |-> Coordinates(L, 1)]>>

\* C3: for a component away from the raster border, remove_interiors leaves
\* exactly the pixels whose 3x3 window is not homogeneous.
C3_ExactlyTheBoundary ==
    (ri.depth = 1 /\ AwayFromBorder(ri.arg)) =>
        /\ NoDuplicates(ri.ret)
        /\ Range(ri.ret) = {p \in Range(ri.arg) : ~Homogeneous(L, p)}

\* C4: remove_interiors retains every foreground pixel on the raster border.
C4_BorderPixelsRetained ==
    ri.depth = 1 =>
        \A p \in Range(ri.arg) : OnBorder(p) => p \in Range(ri.ret)

\* C5: with lists of different lengths get_json_output raises a
\* length-mismatch error and returns no list.
C5_LengthMismatchRaised ==
    (api = "get_json_output" /\ result # Pending
        /\ Len(datasets) # Len(dataset_regions)) =>
        /\ result.kind = "raise"
        /\ result.exc = "LengthMismatch"

\* C6: with lists of equal length n get_json_output returns the n records
\* {"dataset": datasets[i], "regions": dataset_regions[i]}.
C6_RecordsPaired ==
    (api = "get_json_output" /\ result # Pending
        /\ Len(datasets) = Len(dataset_regions)) =>
        /\ result.kind = "value"
        /\ result.val = [i \in 1..Len(datasets) |->
                            [dataset |-> datasets[i], regions |-> dataset_regions[i]]]

\* The last run printed that the 'masks' folder was created or already exists.
MasksReported ==
    \E i \in 1..Len(run.printed) :
        run.printed[i] \in {"'masks' folder created", "'masks' folder already exists"}

\* C7: no run reports the masks as done while a train file whose conversion
\* never failed has no mask.
C7_NoSiblingSkipped ==
    MasksReported => (Range(train_files) \ failedItems) \subseteq fs.masks

\* C8: remove_interiors applied to its own result removes nothing more.
C8_Idempotent ==
    ri.depth = 2 => ri.ret = ri.arg

\* The outcome of the NeuronLoader method that a module-level function wraps
MethodOutcome ==
    CASE api = "module.region_to_mask" -> RegionToMask(regions_json)
      [] api = "module.mask_to_region" -> MaskToRegion(L)
      [] api = "module.get_json_output" -> GetJsonOutput(datasets, dataset_regions)

\* C9: a module-level function returns the value its method produces for the
\* same arguments; it neither returns None nor fails before the method.
C9_WrapperReturnsMethodValue ==
    wresult # Pending =>
        /\ wresult.kind = "value"
        /\ wresult.val = MethodOutcome.val

\* The data directory is fully set up: no zip file left, and non-empty
\* 'train', 'test' and 'masks' folders.
FullySetUp(f) ==
    /\ f.exists
    /\ f.zips = {}
    /\ f.hasTrain /\ f.train # {}
    /\ f.hasTest /\ f.test # {}
    /\ f.hasMasks /\ f.masks # {}

\* C10: a construction on a fully set up data directory changes nothing (no
\* download, no extraction, no move, no mask written); download runs only
\* when there is no data directory, and before setup_data.
C10_ReconstructionChangesNothing ==
    [][/\ FullySetUp(fs) =>
            /\ fs' = fs
            /\ run'.calls = <<"setup_data">>
            /\ run'.unzipped = {}
            /\ run'.moved = {}
            /\ run'.written = {}
       /\ run'.calls = IF fs.exists THEN <<"setup_data">>
                                    ELSE <<"download", "setup_data">>]_vars

\* C10 witness: the last construction found the directory fully set up (it
\* extracted nothing and found all three folders filled) and left it so.
C10_Witness ==
    /\ FullySetUp(fs)
    /\ run.unzipped = {}
    /\ run.printed = <<"already downloaded", "setting up",
                        "'train' folder already exists",
                        "'test' folder already exists",
                        "'masks' folder already exists">>

====
